---- MODULE Spec2Model ----
(***************************************************************************)
(* State-machine model of the "Persuade Me" challenge lifecycle of         *)
(* src/src/actions/persuade_actions.py: post_persuade_challenge,           *)
(* check_challenge_replies, evaluate_persuasion_reply,                     *)
(* reward_successful_persuasion and their helpers.                         *)
(*                                                                         *)
(* The handlers run on one thread.  A handler is either one atomic action  *)
(* (post, reward) or, for the polling handler, a sequence of steps driven  *)
(* by pc; no other handler starts while pc # "idle".                       *)
(*                                                                         *)
(* Spec is the whole lifecycle.  SpecPoll starts from one posted challenge *)
(* whose root cast has replies of any shape.  SpecParse, SpecAddress and   *)
(* SpecNormalize apply one helper (evaluation parsing, wallet lookup,      *)
(* reply normalisation) to every input of a bounded set.                   *)
(***************************************************************************)
EXTENDS Integers, Sequences, FiniteSets, TLC

\* ---------------------------------------------------------------- bounds
MaxChallenges == 2      \* post-persuade-challenge invocations explored
MaxTransfers == 2       \* token transfers explored
MaxReevals == 1         \* repeated text-generation calls for a hash explored

\* ------------------------------------------------------ program constants
Threshold == 7          \* settings.get('persuasion_threshold', 7)
DefaultScore == 5       \* score given to unparseable / score-less output
RewardAmount == 2       \* settings.get('reward_amount', "2")
FallbackAddress == "0xe28D"   \* the hard-coded test address

\* ------------------------------------------------------------ null values
Absent == "<absent>"    \* a missing key, or a local that is still None
NoCast == 0             \* challenge without 'cast_hash'
NoFid == 0              \* author without 'fid'
NoTs == 0               \* "no challenge" marker (timestamp of NoChallenge)
NoTx == 0               \* response without 'reward_tx'
NoThreshold == 0        \* settings without 'persuasion_threshold'

Falsy(s) == s = Absent \/ s = ""

\* ------------------------------------------------- raw replies (platform)
\* Mapping-shaped payloads as returned by get-cast-replies.
Author(u, d, f, fid) == [username |-> u, displayName |-> d, fname |-> f, fid |-> fid]

RawReply(h, t, ct, a) == [hash |-> h, text |-> t, content_text |-> ct, author |-> a]

\* the replies users post, numbered in arrival order: one with a username, a
\* display name and a top-level text, one with only content.text and a fid
ReplyIds == {1, 2}

\* payloads that lack a part: one without a hash, one without any text, one
\* without any author identity
PartialIds == {3, 4, 5}

AllReplyIds == ReplyIds \cup PartialIds

ReplyOf(id) ==
    CASE id = 1 -> RawReply("h1", "arg1", Absent, Author("alice", "AliceD", Absent, 11))
      [] id = 2 -> RawReply("h2", Absent, "arg2", Author(Absent, Absent, Absent, 12))
      [] id = 3 -> RawReply(Absent, "arg3", Absent, Author("carol", Absent, Absent, 13))
      [] id = 4 -> RawReply("h4", Absent, Absent, Author("dave", "DaveD", Absent, 14))
      [] id = 5 -> RawReply("h5", "arg5", Absent, Author(Absent, Absent, Absent, NoFid))

ReplyHashes == {ReplyOf(id).hash : id \in AllReplyIds} \ {Absent}

\* settings['topics'], from which random.choice draws (line 37)
Topics == {"topicA"}

\* --------------------------------------------------- reply normalisation
\* lines 480-488: hash of a mapping payload
ExtractHash(reply) == reply.hash

\* lines 507-510, 554-555: top-level text first, content.text otherwise
ExtractText(reply) ==
    IF reply.text # Absent THEN reply.text
    ELSE IF reply.content_text # Absent THEN reply.content_text
    ELSE Absent

SynthUsername(fid) == "user_" \o ToString(fid)

\* lines 518-527, 549-551: username -> displayName -> fname -> user_<fid>
ExtractUsername(reply) ==
    LET a == reply.author
        first == IF a.username # Absent THEN a.username
                 ELSE IF a.displayName # Absent THEN a.displayName
                 ELSE IF a.fname # Absent THEN a.fname
                 ELSE IF a.fid # NoFid THEN SynthUsername(a.fid)
                 ELSE Absent
    IN IF Falsy(first) /\ a.fid # NoFid THEN SynthUsername(a.fid) ELSE first

\* lines 515-516
ExtractDisplayName(reply) == reply.author.displayName

\* lines 480-559: what the loop recovers from one payload
Normalize(reply) ==
    [reply_hash |-> ExtractHash(reply), reply_text |-> ExtractText(reply),
     username |-> ExtractUsername(reply), display_name |-> ExtractDisplayName(reply)]

\* lines 486-488, 557-559: the payload is skipped
Incomplete(reply) ==
    \/ Falsy(ExtractHash(reply))
    \/ Falsy(ExtractText(reply))
    \/ Falsy(ExtractUsername(reply))

Usernames == {ExtractUsername(ReplyOf(id)) : id \in ReplyIds}

\* ------------------------------------------------------- address lookup
Fids == {ReplyOf(id).author.fid : id \in ReplyIds} \ {NoFid}

\* lines 789-795: "user_<digits>" carries a fid, anything else does not
HasFidForm(username) == \E f \in Fids : username = SynthUsername(f)

\* outcomes of the identity service for one request
LookupOutcomes == {"verified", "none"}

\* the docstring's contract: None when no address is found
GetUserWalletAddressOrNone(username, outcome) ==
    IF ~HasFidForm(username) THEN Absent
    ELSE CASE outcome = "verified" -> "0xVerified"
           [] outcome = "custody" -> "0xCustody"
           [] OTHER -> Absent

\* lines 774-861
GetUserWalletAddress(username, outcome) ==
    IF ~HasFidForm(username) THEN FallbackAddress
    ELSE CASE outcome = "verified" -> "0xVerified"
           [] outcome = "custody" -> "0xCustody"
           [] OTHER -> FallbackAddress

\* outcomes that can be told apart for this username
LookupChoices(username) == IF HasFidForm(username) THEN LookupOutcomes ELSE {"none"}

\* ------------------------------------------------------------ evaluation
\* What the text-generation call produced: it raised, or returned text.  The
\* text holds a JSON object (json and object, with or without score and
\* passed), or is itself valid JSON that is no object, such as "8" (json and
\* not object), or holds no valid JSON (not json).
LLMAnswer(called, raised, json, object, hs, s, hp, p) ==
    [called |-> called, raised |-> raised, json |-> json, object |-> object,
     hasScore |-> hs, score |-> s, hasPassed |-> hp, passed |-> p]

LLMText(json, hs, s, hp, p) == LLMAnswer(TRUE, FALSE, json, json, hs, s, hp, p)

LLMRaised == LLMAnswer(TRUE, TRUE, FALSE, FALSE, FALSE, 0, FALSE, FALSE)

\* "8", "true", "null": json.loads succeeds on the whole text (line 222)
LLMScalar == LLMAnswer(TRUE, FALSE, TRUE, FALSE, FALSE, 0, FALSE, FALSE)

\* "I think this is pretty good"
LLMProse == LLMText(FALSE, FALSE, 0, FALSE, FALSE)

\* no text-generation call was made
NoLLM == LLMAnswer(FALSE, FALSE, FALSE, FALSE, FALSE, 0, FALSE, FALSE)

LLMResponses ==
    { LLMRaised,
      LLMScalar,
      LLMProse,
      LLMText(TRUE, TRUE, 8, FALSE, FALSE) }

\* the value stored under 'evaluation': a dict, or an error string
EvalDict(s, p) == [isDict |-> TRUE, score |-> s, passed |-> p]

EvalError == [isDict |-> FALSE, score |-> 0, passed |-> FALSE]

\* passed is backfilled only above the threshold
BackfillPassedStrict(score, threshold) == score > threshold

\* line 244
BackfillPassed(score, threshold) == score >= threshold

\* lines 212-245, 271-273: parse, default on JSONDecodeError, backfill missing
\* fields.  On a value that is no dict the membership test of line 235 raises
\* TypeError, which line 271 turns into the error string.
ParseEvaluation(resp, threshold) ==
    IF ~resp.json THEN EvalDict(DefaultScore, FALSE)
    ELSE IF ~resp.object THEN EvalError
    ELSE LET s == IF resp.hasScore THEN resp.score ELSE DefaultScore
             p == IF resp.hasPassed THEN resp.passed ELSE BackfillPassed(s, threshold)
         IN EvalDict(s, p)

\* ------------------------------------------------------------- challenge
NoChallenge ==
    [topic |-> Absent, timestamp |-> NoTs, reward_amount |-> 0, responses |-> <<>>,
     cast_hash |-> NoCast, completed |-> FALSE, winner |-> Absent]

\* lines 46-51
NewChallenge(topic, ts, amount) ==
    [topic |-> topic, timestamp |-> ts, reward_amount |-> amount, responses |-> <<>>,
     cast_hash |-> NoCast, completed |-> FALSE, winner |-> Absent]

\* lines 248-255 (display = Absent) and 580-588
ResponseData(username, display, address, hash, text, evaluation) ==
    [username |-> username, display_name |-> display, user_address |-> address,
     reply_hash |-> hash, reply_text |-> text, evaluation |-> evaluation,
     rewarded |-> FALSE, reward_tx |-> NoTx]

NoReply ==
    [username |-> Absent, display_name |-> Absent, user_address |-> Absent,
     reply_hash |-> Absent, reply_text |-> Absent, evaluation |-> EvalError,
     rewarded |-> FALSE, reward_tx |-> NoTx]

AppendResponse(ch, r) == [ch EXCEPT !.responses = Append(@, r)]

\* lines 490-495
AlreadyProcessed(ch, hash) ==
    \E i \in 1..Len(ch.responses) : ch.responses[i].reply_hash = hash

\* ----------------------------------------------------------------- state
VARIABLES
    cur,        \* agent.state['current_challenge'] (NoChallenge when unset)
    loc,        \* the poll's local 'challenge' dict once it is no longer cur
    aliased,    \* the poll's local 'challenge' is the dict held in cur
    autoStop,   \* settings 'auto_stop_on_winner'
    pc,         \* position of the running check_challenge_replies
    batch,      \* replies fetched by the running poll (reply ids)
    idx,        \* position of the poll's loop in batch
    item,       \* response_data of the reply being processed
    snapshot,   \* the most recently modified challenges/challenge_<ts>.json
    platform,   \* replies under each posted root cast, arrival order
    clock,      \* number of challenges created so far
    transfers,  \* token transfers sent, in order: the challenge each was for
    ledger,     \* winner file contents
    evalCalls,  \* text-generation calls made per reply hash
    calls,      \* external calls and file writes made by the last step
    llm,        \* what the text-generation call of the last step produced
    result,     \* what the last finished handler returned
    fnArg,      \* argument of the helper applied on its own
    fnRet,      \* what that helper returned
    config,     \* agent.config['persuasion_challenge_settings']
    feeds,          \* what mentioned-casts and get-latest-casts answered
    processedCasts, \* processed_casts handed to process_new_casts
    allCasts,       \* casts returned by monitor_farcaster, in order
    castIdx,        \* position of process_new_casts's loop in allCasts
    newProcessed,   \* new_processed of the running process_new_casts
    processedCount, \* processed_count of the running process_new_casts
    pitchPc,        \* position of the pitch pipeline
    pitchCastId,    \* cast_id of the running process_pitch
    pitchTrace,     \* connection actions performed for pitches, in order
    pitchResult     \* what the last process_pitch has set or returned

vars == <<cur, loc, aliased, autoStop, pc, batch, idx, item, snapshot,
          platform, clock, transfers, ledger, evalCalls, calls, llm, result,
          fnArg, fnRet, config, feeds, processedCasts, allCasts, castIdx,
          newProcessed, processedCount, pitchPc, pitchCastId, pitchTrace,
          pitchResult>>

pureVars == <<fnArg, fnRet>>

pitchVars == <<feeds, processedCasts, allCasts, castIdx, newProcessed,
               processedCount, pitchPc, pitchCastId, pitchTrace, pitchResult>>

persuadeVars == <<cur, loc, aliased, autoStop, pc, batch, idx, item, snapshot,
                  platform, clock, transfers, ledger, evalCalls, calls, llm,
                  result, fnArg, fnRet, config>>

NoFeeds == [mentions |-> <<>>, latest |-> <<>>]

\* no process_pitch has run
NoPitchResult ==
    [success |-> FALSE, stage |-> Absent, evaluation |-> Absent,
     responded |-> FALSE, character_count |-> 0, returned |-> FALSE]

\* the pitch pipeline before its first action
PitchIdle ==
    /\ feeds = NoFeeds
    /\ processedCasts = {}
    /\ allCasts = <<>>
    /\ castIdx = 0
    /\ newProcessed = {}
    /\ processedCount = 0
    /\ pitchPc = "idle"
    /\ pitchCastId = Absent
    /\ pitchTrace = <<>>
    /\ pitchResult = NoPitchResult

pollVars == <<loc, aliased, pc, batch, idx, item>>

Timestamps == 1..MaxChallenges

\* the handlers go on without a current challenge
HasChallengeUnchecked == TRUE

\* lines 162, 302, 412: 'current_challenge' in agent.state
HasChallenge == cur.timestamp # NoTs

\* the dict the poll's local name 'challenge' refers to
Local == IF aliased THEN cur ELSE loc

\* the settings the handlers read from agent.config at each invocation
Settings(topics, amount, threshold) ==
    [topics |-> topics, reward_amount |-> amount, persuasion_threshold |-> threshold]

DefaultSettings == Settings(Topics, RewardAmount, Threshold)

\* line 159
PersuasionThreshold ==
    IF config.persuasion_threshold = NoThreshold THEN Threshold
    ELSE config.persuasion_threshold

\* line 299
ConfiguredRewardAmount == config.reward_amount

\* what a handler returned: the handler, the kind of message, the winner the
\* message names, and for a reward the arguments of its transfer call, the
\* name its congratulation mentions, the cast that one replies to and the
\* username the reward was asked for
Result(op, kind) ==
    [op |-> op, kind |-> kind, winner |-> Absent, address |-> Absent, amount |-> 0,
     mention |-> Absent, target |-> Absent, requested |-> Absent]

NoResult == Result("none", "none")

\* no helper is being applied on its own
NoArg == [fn |-> "none"]

\* a step of the poll that returns nothing yet
Running == Result("check", "running")

\* the agent before its first action
Idle ==
    /\ cur = NoChallenge
    /\ loc = NoChallenge
    /\ aliased = TRUE
    /\ autoStop \in BOOLEAN
    /\ pc = "idle"
    /\ batch = <<>>
    /\ idx = 0
    /\ item = NoReply
    /\ snapshot = NoChallenge
    /\ platform = [t \in Timestamps |-> <<>>]
    /\ clock = 0
    /\ transfers = <<>>
    /\ ledger = <<>>
    /\ evalCalls = [h \in ReplyHashes |-> 0]
    /\ calls = {}
    /\ llm = NoLLM
    /\ result = NoResult
    /\ config = DefaultSettings
    /\ PitchIdle

Init ==
    /\ Idle
    /\ fnArg = NoArg
    /\ fnRet = NoArg

\* lines 708-734: write the challenge to the file named by its timestamp,
\* which makes that file the most recently modified one (the only file the
\* program ever reads back, lines 438-443)
SaveChallengeToFile(ch) == snapshot' = ch

\* ------------------------------------------------ post-persuade-challenge
PostOutcomes == {"raise", "hash", "nohash"}

\* lines 29-34
NoTopics(topics) == topics = {}

\* lines 13-123.  The new record replaces the current challenge before the
\* root message is posted; a raising post-cast leaves it unsaved.
PostPersuadeChallenge ==
    /\ pc = "idle"
    /\ UNCHANGED <<pureVars, config, pitchVars>>
    /\ llm' = NoLLM
    /\ IF NoTopics(config.topics)
       THEN /\ result' = Result("post", "no-topics")
            /\ calls' = {}
            /\ UNCHANGED <<cur, snapshot, clock>>
       ELSE /\ clock < MaxChallenges
            /\ \E topic \in config.topics, outcome \in PostOutcomes :
                LET ts == clock + 1
                    fresh == NewChallenge(topic, ts, config.reward_amount)
                    posted == [fresh EXCEPT !.cast_hash = IF outcome = "hash" THEN ts ELSE NoCast]
                IN /\ clock' = ts
                   /\ IF outcome = "raise"
                      THEN /\ cur' = fresh
                           /\ calls' = {"post-cast"}
                           /\ result' = Result("post", "error")
                           /\ UNCHANGED <<snapshot>>
                      ELSE /\ cur' = posted
                           /\ SaveChallengeToFile(posted)
                           /\ calls' = {"post-cast", "save"}
                           /\ result' = Result("post", "posted")
    /\ UNCHANGED <<pollVars, autoStop, platform, transfers, ledger, evalCalls>>

\* ------------------------------------------------------------ environment
Used == UNION {{platform[t][i] : i \in 1..Len(platform[t])} : t \in Timestamps}

\* root casts the program can still fetch replies for
LiveCasts == {cur.cast_hash, snapshot.cast_hash} \ {NoCast}

\* a platform user replies under a posted root cast; replies are numbered in
\* arrival order, and replies under a cast the program never fetches again
\* are left out
UserReplies ==
    /\ pc = "idle"
    /\ UNCHANGED <<pureVars, config, pitchVars>>
    /\ llm' = NoLLM
    /\ \E t \in Timestamps, id \in ReplyIds \ Used :
        /\ \A other \in ReplyIds \ Used : id <= other
        /\ t \in LiveCasts
        /\ platform' = [platform EXCEPT ![t] = Append(@, id)]
    /\ calls' = {}
    /\ result' = Result("env", "reply")
    /\ UNCHANGED <<cur, pollVars, autoStop, snapshot, clock, transfers, ledger,
                   evalCalls>>

\* ------------------------------------------------ check-challenge-replies
EndPoll ==
    /\ pc' = "idle"
    /\ loc' = NoChallenge
    /\ aliased' = TRUE
    /\ batch' = <<>>
    /\ idx' = 0
    /\ item' = NoReply

\* the completed flag is ignored by the poll
IsCompletedIgnored(ch) == FALSE

\* line 422
IsCompleted(ch) == ch.completed

\* lines 436-447: the most recently modified snapshot, if it has a cast_hash
CanRecover == snapshot.timestamp # NoTs /\ snapshot.cast_hash # NoCast

FetchOutcomes == {"raise", "list"}

\* the handler of a failed fetch goes on to process the replies
FetchFailedProcesses(replies) ==
    /\ calls' = {"get-cast-replies", "get-cast"}
    /\ result' = Running
    /\ batch' = replies
    /\ idx' = 1
    /\ pc' = "loop"
    /\ loc' = NoChallenge
    /\ aliased' = TRUE
    /\ item' = NoReply

\* lines 664-700: get-cast-replies raised; the fallback asks get-cast for the
\* reply count and returns a message
FetchFailed(replies) ==
    /\ calls' = {"get-cast-replies", "get-cast"}
    /\ result' = Result("check", "fetch-failed")
    /\ EndPoll

\* lines 455-475, 651-700: fetch the replies under cast_hash.  newCur is the
\* value of agent.state['current_challenge'] and oldCur the dict bound to the
\* local name 'challenge' (the same dict when al).
CheckFetch(newCur, oldCur, al) ==
    \E outcome \in FetchOutcomes :
        LET replies == platform[newCur.cast_hash]
        IN /\ cur' = newCur
           /\ IF outcome = "raise"
              THEN FetchFailed(replies)
              ELSE /\ calls' = {"get-cast-replies"}
                   /\ IF replies = <<>>
                      THEN /\ result' = Result("check", "no-replies")
                           /\ EndPoll
                      ELSE /\ batch' = replies
                           /\ idx' = 1
                           /\ pc' = "loop"
                           /\ loc' = IF al THEN NoChallenge ELSE oldCur
                           /\ aliased' = al
                           /\ item' = NoReply
                           /\ result' = Running

\* lines 410-453
CheckChallengeReplies ==
    /\ pc = "idle"
    /\ UNCHANGED <<pureVars, config, pitchVars>>
    /\ llm' = NoLLM
    /\ IF ~HasChallenge
       THEN /\ result' = Result("check", "no-challenge")
            /\ calls' = {}
            /\ UNCHANGED <<cur, pollVars>>
       ELSE IF IsCompleted(cur)
       THEN /\ result' = [Result("check", "completed") EXCEPT !.winner = cur.winner]
            /\ calls' = {}
            /\ UNCHANGED <<cur, pollVars>>
       ELSE IF cur.cast_hash # NoCast
       THEN CheckFetch(cur, cur, TRUE)
       ELSE IF CanRecover
       THEN CheckFetch(snapshot, cur, FALSE)
       ELSE /\ result' = Result("check", "no-cast-hash")
            /\ calls' = {}
            /\ UNCHANGED <<cur, pollVars>>
    /\ UNCHANGED <<autoStop, snapshot, platform, clock, transfers, ledger, evalCalls>>

\* assign to the dict the local name 'challenge' refers to
SetLocal(ch) ==
    IF aliased THEN cur' = ch /\ loc' = loc
    ELSE loc' = ch /\ cur' = cur

\* a skipped reply ends the loop (break for continue)
SkipBreaks ==
    /\ idx' = Len(batch) + 1
    /\ calls' = {}
    /\ llm' = NoLLM
    /\ UNCHANGED <<cur, loc, aliased, pc, batch, item, snapshot, evalCalls>>

\* lines 488, 499, 559: continue
Skip ==
    /\ idx' = idx + 1
    /\ calls' = {}
    /\ llm' = NoLLM
    /\ UNCHANGED <<cur, loc, aliased, pc, batch, item, snapshot, evalCalls>>

\* line 651: the loop is over
PollReturn ==
    /\ pc = "loop"
    /\ UNCHANGED <<pureVars, config, pitchVars>>
    /\ llm' = NoLLM
    /\ idx > Len(batch)
    /\ result' = Result("check", "processed")
    /\ calls' = {}
    /\ EndPoll
    /\ UNCHANGED <<cur, autoStop, snapshot, platform, clock, transfers, ledger,
                   evalCalls>>

\* text-generation calls made for a hash that had been evaluated before
Reevals ==
    LET extra(h) == IF evalCalls[h] > 1 THEN evalCalls[h] - 1 ELSE 0
        RECURSIVE Sum(_)
        Sum(S) == IF S = {} THEN 0
                  ELSE LET h == CHOOSE x \in S : TRUE IN extra(h) + Sum(S \ {h})
    IN Sum(ReplyHashes)

\* lines 149-273, as called at line 565: the text-generation call, parsing,
\* the append to the current challenge and the first save
EvaluatePersuasionReply(username, display, address, hash, text) ==
    /\ evalCalls[hash] = 0 \/ Reevals < MaxReevals
    /\ evalCalls' = [evalCalls EXCEPT ![hash] = @ + 1]
    /\ \E resp \in LLMResponses :
        /\ llm' = resp
        /\ IF resp.raised \/ ~ParseEvaluation(resp, PersuasionThreshold).isDict
           THEN /\ item' = ResponseData(username, display, address, hash, text, EvalError)
                /\ pc' = "chk_append"
                /\ UNCHANGED <<cur, snapshot>>
           ELSE LET ev == ParseEvaluation(resp, PersuasionThreshold)
                    ch == AppendResponse(cur, ResponseData(username, Absent, address, hash, text, ev))
                IN /\ item' = ResponseData(username, display, address, hash, text, ev)
                   /\ cur' = ch
                   /\ SaveChallengeToFile(ch)
                   /\ pc' = IF ev.passed /\ autoStop THEN "eval_completed" ELSE "chk_append"

\* lines 476-571: one iteration of the loop up to the evaluator's append
ProcessReply ==
    /\ pc = "loop"
    /\ UNCHANGED <<pureVars, config, pitchVars>>
    /\ idx <= Len(batch)
    /\ LET reply == ReplyOf(batch[idx])
           hash == ExtractHash(reply)
           text == ExtractText(reply)
           username == ExtractUsername(reply)
           display == ExtractDisplayName(reply)
       IN IF Falsy(hash) THEN Skip
          ELSE IF AlreadyProcessed(Local, hash) THEN Skip
          ELSE IF Falsy(text) \/ Falsy(username) THEN Skip
          ELSE /\ \E lo \in LookupChoices(username) :
                    EvaluatePersuasionReply(username, display,
                        GetUserWalletAddress(username, lo), hash, text)
               /\ calls' = {"generate-text"}
               /\ UNCHANGED <<loc, aliased, batch, idx>>
    /\ UNCHANGED <<autoStop, platform, clock, transfers, ledger>>
    /\ result' = Running

\* the winner is assigned before the completed flag
EvalMarkFirstWinner(ch, username) == [ch EXCEPT !.winner = username]

\* line 265
EvalMarkFirst(ch, username) == [ch EXCEPT !.completed = TRUE]

\* line 266
EvalMarkSecond(ch, username) == [ch EXCEPT !.winner = username]

\* replies whose fields the evaluator is invoked with on its own: one with
\* every field and one without a hash (lines 144-147)
InvokedReplies == {1, 3}

\* lines 126-277, invoked on its own with the fields of one reply: the
\* parameter and challenge checks, the text-generation call, the append and
\* the save, and with auto-stop the two assignments and the second save
InvokeEvaluatePersuasionReply ==
    /\ pc = "idle"
    /\ UNCHANGED <<pureVars, config, pitchVars>>
    /\ \E id \in InvokedReplies :
        LET reply == ReplyOf(id)
            hash == ExtractHash(reply)
            text == ExtractText(reply)
            username == ExtractUsername(reply)
        IN IF Falsy(text) \/ Falsy(username) \/ Falsy(hash)
           THEN /\ result' = Result("evaluate", "missing-parameters")
                /\ calls' = {}
                /\ llm' = NoLLM
                /\ UNCHANGED <<cur, snapshot, evalCalls>>
           ELSE IF ~HasChallenge
           THEN /\ result' = Result("evaluate", "no-challenge")
                /\ calls' = {}
                /\ llm' = NoLLM
                /\ UNCHANGED <<cur, snapshot, evalCalls>>
           ELSE \E lo \in LookupChoices(username), resp \in LLMResponses :
                LET address == GetUserWalletAddress(username, lo)
                    ev == ParseEvaluation(resp, PersuasionThreshold)
                    ch == AppendResponse(cur, ResponseData(username, Absent, address, hash, text, ev))
                    marked == EvalMarkSecond(EvalMarkFirst(ch, username), username)
                    done == IF ev.passed /\ autoStop THEN marked ELSE ch
                IN /\ evalCalls[hash] = 0 \/ Reevals < MaxReevals
                   /\ evalCalls' = [evalCalls EXCEPT ![hash] = @ + 1]
                   /\ llm' = resp
                   /\ IF resp.raised \/ ~ev.isDict
                      THEN /\ result' = Result("evaluate", "error")
                           /\ calls' = {"generate-text"}
                           /\ UNCHANGED <<cur, snapshot>>
                      ELSE /\ cur' = done
                           /\ SaveChallengeToFile(done)
                           /\ calls' = {"generate-text", "save"}
                           /\ result' = Result("evaluate", IF ev.passed THEN "passed" ELSE "failed")
    /\ UNCHANGED <<pollVars, autoStop, platform, clock, transfers, ledger>>

\* line 265, reached when the evaluation passed and auto-stop is enabled
EvalSetCompleted ==
    /\ pc = "eval_completed"
    /\ UNCHANGED <<pureVars, config, pitchVars>>
    /\ llm' = NoLLM
    /\ cur' = EvalMarkFirst(cur, item.username)
    /\ pc' = "eval_winner"
    /\ calls' = {}
    /\ UNCHANGED <<loc, aliased, batch, idx, item, autoStop, snapshot, platform,
                   clock, transfers, ledger, evalCalls>>
    /\ result' = Running

\* lines 266-267
EvalSetWinner ==
    /\ pc = "eval_winner"
    /\ UNCHANGED <<pureVars, config, pitchVars>>
    /\ llm' = NoLLM
    /\ LET ch == EvalMarkSecond(cur, item.username)
       IN cur' = ch /\ SaveChallengeToFile(ch)
    /\ pc' = "chk_append"
    /\ calls' = {"save"}
    /\ UNCHANGED <<loc, aliased, batch, idx, item, autoStop, platform, clock, transfers,
                   ledger, evalCalls>>
    /\ result' = Running

\* line 593
ReplyPassed(r) == r.evaluation.isDict /\ r.evaluation.passed

\* lines 576-590: the poll records the reply in its own 'challenge' dict
CheckAppend ==
    /\ pc = "chk_append"
    /\ UNCHANGED <<pureVars, config, pitchVars>>
    /\ llm' = NoLLM
    /\ SetLocal(AppendResponse(Local, item))
    /\ pc' = IF ReplyPassed(item) THEN "chk_completed" ELSE "chk_save"
    /\ calls' = {}
    /\ UNCHANGED <<aliased, batch, idx, item, autoStop, snapshot, platform, clock,
                   transfers, ledger, evalCalls>>
    /\ result' = Running

\* the poll's assignment flips the flag
CheckMarkFirstToggles(ch, r) == [ch EXCEPT !.completed = ~ch.completed]

\* line 594
CheckMarkFirst(ch, r) == [ch EXCEPT !.completed = TRUE]

\* line 595
CheckMarkSecond(ch, r) ==
    [ch EXCEPT !.winner = IF ~Falsy(r.display_name) THEN r.display_name ELSE r.username]

CheckSetCompleted ==
    /\ pc = "chk_completed"
    /\ UNCHANGED <<pureVars, config, pitchVars>>
    /\ llm' = NoLLM
    /\ SetLocal(CheckMarkFirst(Local, item))
    /\ pc' = "chk_winner"
    /\ calls' = {}
    /\ UNCHANGED <<aliased, batch, idx, item, autoStop, snapshot, platform, clock,
                   transfers, ledger, evalCalls>>
    /\ result' = Running

CheckSetWinner ==
    /\ pc = "chk_winner"
    /\ UNCHANGED <<pureVars, config, pitchVars>>
    /\ llm' = NoLLM
    /\ SetLocal(CheckMarkSecond(Local, item))
    /\ pc' = "chk_save"
    /\ calls' = {}
    /\ UNCHANGED <<aliased, batch, idx, item, autoStop, snapshot, platform, clock,
                   transfers, ledger, evalCalls>>
    /\ result' = Running

\* line 599: the snapshot written is that of agent.state['current_challenge']
CheckSave ==
    /\ pc = "chk_save"
    /\ UNCHANGED <<pureVars, config, pitchVars>>
    /\ llm' = NoLLM
    /\ SaveChallengeToFile(cur)
    /\ pc' = "feedback"
    /\ calls' = {"save"}
    /\ UNCHANGED <<cur, loc, aliased, batch, idx, item, autoStop, platform, clock,
                   transfers, ledger, evalCalls>>
    /\ result' = Running

FeedbackOutcomes == {"replied", "root-replied", "failed"}

\* lines 620-643: the calls made for one feedback.  The reply-to-cast on the
\* reply's hash comes first; when it raises, the root cast is tried if the
\* local 'challenge' dict has a cast_hash.
FeedbackCalls(ch, outcome) ==
    IF outcome = "replied" THEN {"reply-to-reply"}
    ELSE {"reply-to-reply", "reply-failed"} \cup
         (IF ch.cast_hash # NoCast THEN {"reply-to-root"} ELSE {}) \cup
         (IF ch.cast_hash # NoCast /\ outcome = "failed" THEN {"root-failed"} ELSE {})

\* lines 601-646: feedback to the reply, else to the root cast; no feedback
\* when the evaluation is an error string
CheckFeedback ==
    /\ pc = "feedback"
    /\ UNCHANGED <<pureVars, config, pitchVars>>
    /\ llm' = NoLLM
    /\ IF ~item.evaluation.isDict
       THEN calls' = {}
       ELSE \E outcome \in FeedbackOutcomes : calls' = FeedbackCalls(Local, outcome)
    /\ idx' = idx + 1
    /\ pc' = "loop"
    /\ item' = NoReply
    /\ UNCHANGED <<cur, loc, aliased, batch, autoStop, snapshot, platform, clock,
                   transfers, ledger, evalCalls>>
    /\ result' = Running

\* ------------------------------------------- reward-successful-persuasion
\* lines 311-322: index of the selected response; 0 when the scan finds none,
\* -1 when it reads .get on an evaluation that is an error string
SelectWinner(responses, username) ==
    LET considered(i) == Falsy(username) \/ responses[i].username = username
        hit(i) == considered(i) /\ responses[i].evaluation.isDict
                  /\ responses[i].evaluation.passed
        raises(i) == considered(i) /\ ~responses[i].evaluation.isDict
        events == {i \in 1..Len(responses) : hit(i) \/ raises(i)}
        first == CHOOSE i \in events : \A j \in events : i <= j
    IN IF events = {} THEN 0
       ELSE IF raises(first) THEN -1
       ELSE first

\* lines 757-765
LedgerEntry(ch, w, amount) ==
    [username |-> w.username, address |-> w.user_address, topic |-> ch.topic,
     score |-> w.evaluation.score, reward_amount |-> amount,
     reward_tx |-> w.reward_tx]

\* the file is rewritten with the new entry alone
UpdateWinnerFileOverwrites(winners, entry) == <<entry>>

\* lines 736-772: the list read from the winner file (the empty list when the
\* file does not exist yet) is written back with the new entry at its end
UpdateWinnerFile(winners, entry) == Append(winners, entry)

TransferOutcomes == {"sent", "raise"}

\* line 365
MentionName(w) == IF ~Falsy(w.display_name) THEN w.display_name ELSE w.username

\* lines 371-389: the winner's reply, else the root cast ("root" here)
CongratulationTarget(w, ch) ==
    IF ~Falsy(w.reply_hash) THEN w.reply_hash
    ELSE IF ch.cast_hash # NoCast THEN "root"
    ELSE Absent

\* line 337
HasAddress(address) == ~Falsy(address)

\* a raising transfer is taken for a sent one
TransferRaisesSwallowed(outcome) == FALSE

\* lines 344-348, 397-399: a failing transfer call raises, and the exception
\* leaves the handler through the outer except
TransferRaises(outcome) == outcome = "raise"

\* lines 280-399
RewardSuccessfulPersuasion ==
    /\ pc = "idle"
    /\ UNCHANGED <<pureVars, config, pitchVars>>
    /\ llm' = NoLLM
    /\ \E username \in {Absent} \cup Usernames :
        IF ~HasChallenge
        THEN /\ result' = [Result("reward", "no-challenge") EXCEPT !.requested = username]
             /\ calls' = {}
             /\ UNCHANGED <<cur, snapshot, transfers, ledger>>
        ELSE LET sel == SelectWinner(cur.responses, username)
             IN IF sel = -1
                THEN /\ result' = [Result("reward", "error") EXCEPT !.requested = username]
                     /\ calls' = {}
                     /\ UNCHANGED <<cur, snapshot, transfers, ledger>>
                ELSE IF sel = 0
                THEN /\ result' = [Result("reward", "no-winner") EXCEPT !.requested = username]
                     /\ calls' = {}
                     /\ UNCHANGED <<cur, snapshot, transfers, ledger>>
                ELSE \E lo \in LookupChoices(cur.responses[sel].username),
                        outcome \in TransferOutcomes :
                     LET w == cur.responses[sel]
                         address == GetUserWalletAddress(w.username, lo)
                         tx == Len(ledger) + 1
                         paid == [w EXCEPT !.rewarded = TRUE, !.reward_tx = tx]
                         ch == [cur EXCEPT !.responses[sel] = paid]
                     IN /\ Len(transfers) < MaxTransfers
                        /\ transfers' = IF outcome = "sent" /\ HasAddress(address)
                                        THEN Append(transfers, cur.timestamp)
                                        ELSE transfers
                        /\ IF ~HasAddress(address)
                           THEN /\ result' = [Result("reward", "no-address") EXCEPT !.requested = username]
                                /\ calls' = {}
                                /\ UNCHANGED <<cur, snapshot, ledger>>
                           ELSE IF TransferRaises(outcome)
                           THEN /\ result' = [Result("reward", "error") EXCEPT
                                                !.requested = username,
                                                !.address = address, !.amount = ConfiguredRewardAmount]
                                /\ calls' = {"transfer"}
                                /\ UNCHANGED <<cur, snapshot, ledger>>
                           ELSE /\ cur' = ch
                                /\ ledger' = UpdateWinnerFile(ledger, LedgerEntry(cur, paid, ConfiguredRewardAmount))
                                /\ SaveChallengeToFile(ch)
                                /\ calls' = {"transfer", "save"} \cup
                                      (IF ~Falsy(w.reply_hash) THEN {"reply-to-reply"}
                                       ELSE IF cur.cast_hash # NoCast THEN {"reply-to-root"}
                                       ELSE {})
                                /\ result' = [Result("reward", "sent") EXCEPT
                                                !.requested = username,
                                                !.winner = w.username,
                                                !.address = address, !.amount = ConfiguredRewardAmount,
                                                !.mention = MentionName(w),
                                                !.target = CongratulationTarget(w, cur)]
    /\ UNCHANGED <<pollVars, autoStop, platform, clock, evalCalls>>

\* ------------------------------------------- helpers applied on their own
\* "Score the argument from 1 to 10" (lines 173, 182)
MaxScore == 10

\* values of settings['persuasion_threshold'] (line 159)
Thresholds == 1..MaxScore

\* provider texts: prose, a bare scalar, and every JSON object with or without
\* a score (in the range asked for, or just outside it) and with or without
\* passed
ParseInputs ==
    {LLMProse, LLMScalar} \cup
    {LLMText(TRUE, hs, IF hs THEN s ELSE 0, hp, hp /\ p) :
        hs \in BOOLEAN, s \in 0..(MaxScore + 1), hp \in BOOLEAN, p \in BOOLEAN}

ParseCall(resp, threshold) == [fn |-> "parse", resp |-> resp, threshold |-> threshold]

Returned(fn, value) == [fn |-> fn, value |-> value]

InitParse ==
    /\ Idle
    /\ fnArg \in {ParseCall(r, t) : r \in ParseInputs, t \in Thresholds}
    /\ fnRet = NoArg

\* lines 212-245 applied to one provider text
ApplyParseEvaluation ==
    /\ fnArg.fn = "parse"
    /\ fnRet = NoArg
    /\ fnRet' = Returned("parse", ParseEvaluation(fnArg.resp, fnArg.threshold))
    /\ UNCHANGED <<cur, pollVars, autoStop, snapshot, platform, clock, transfers,
                   ledger, evalCalls, calls, llm, result, fnArg, config, pitchVars>>

NextParse == ApplyParseEvaluation

\* mapping payloads of every shape: each key missing, present with an empty
\* value, or present with a value
Payloads ==
    {RawReply(h, t, ct, Author(u, d, f, fid)) :
        h \in {Absent, "h1"}, t \in {Absent, "", "arg1"}, ct \in {Absent, "arg2"},
        u \in {Absent, "", "alice"}, d \in {Absent, "", "AliceD"},
        f \in {Absent, "", "alice.f"}, fid \in {NoFid, 12}}

NormalizeCall(reply) == [fn |-> "normalize", reply |-> reply]

InitNormalize ==
    /\ Idle
    /\ fnArg \in {NormalizeCall(r) : r \in Payloads}
    /\ fnRet = NoArg

\* lines 480-559 applied to one payload
ApplyNormalize ==
    /\ fnArg.fn = "normalize"
    /\ fnRet = NoArg
    /\ fnRet' = Returned("normalize",
                    [fields |-> Normalize(fnArg.reply), incomplete |-> Incomplete(fnArg.reply)])
    /\ UNCHANGED <<cur, pollVars, autoStop, snapshot, platform, clock, transfers,
                   ledger, evalCalls, calls, llm, result, fnArg, config, pitchVars>>

NextNormalize == ApplyNormalize

SpecNormalize == InitNormalize /\ [][NextNormalize]_vars

\* every way the identity service can answer one request (lines 820-857):
\* a user with a verified address, with a custody address only, with neither,
\* a status other than 200, an empty or missing user list, an exception
AllLookupOutcomes == {"verified", "custody", "none", "http-error", "empty", "exception"}

\* usernames handed to the lookup: those of the replies, and names that have
\* the user_<digits> form or just miss it
LookupUsernames ==
    Usernames \cup {SynthUsername(f) : f \in Fids} \cup
    {Absent, "", "AliceD", "user_", "user_1x", "User_11"}

AddressCall(username, outcome) == [fn |-> "address", username |-> username, outcome |-> outcome]

InitAddress ==
    /\ Idle
    /\ fnArg \in {AddressCall(u, o) : u \in LookupUsernames, o \in AllLookupOutcomes}
    /\ fnRet = NoArg

\* lines 335-339: the address step of a reward for this username
ApplyGetUserWalletAddress ==
    /\ fnArg.fn = "address"
    /\ fnRet = NoArg
    /\ LET address == GetUserWalletAddress(fnArg.username, fnArg.outcome)
       IN fnRet' = Returned("address", [address |-> address, proceeds |-> HasAddress(address)])
    /\ UNCHANGED <<cur, pollVars, autoStop, snapshot, platform, clock, transfers,
                   ledger, evalCalls, calls, llm, result, fnArg, config, pitchVars>>

NextAddress == ApplyGetUserWalletAddress

SpecAddress == InitAddress /\ [][NextAddress]_vars

SpecParse == InitParse /\ [][NextParse]_vars

\* -------------------------------------------- one root cast and its replies
MaxBatch == 3

\* replies found under a root cast: any payloads, in any order
Batches ==
    {b \in UNION {[1..n -> AllReplyIds] : n \in 1..MaxBatch} :
        \A i, j \in DOMAIN b : i # j => b[i] # b[j]}

\* a challenge was posted and saved (lines 46-117) and users replied to it
InitPoll ==
    \E topic \in Topics, b \in Batches :
        LET ch == [NewChallenge(topic, 1, RewardAmount) EXCEPT !.cast_hash = 1]
        IN /\ cur = ch
           /\ snapshot = ch
           /\ clock = 1
           /\ platform = [t \in Timestamps |-> IF t = 1 THEN b ELSE <<>>]
           /\ loc = NoChallenge
           /\ aliased = TRUE
           /\ autoStop \in BOOLEAN
           /\ pc = "idle"
           /\ batch = <<>>
           /\ idx = 0
           /\ item = NoReply
           /\ transfers = <<>>
           /\ ledger = <<>>
           /\ evalCalls = [h \in ReplyHashes |-> 0]
           /\ calls = {"post-cast", "save"}
           /\ llm = NoLLM
           /\ result = Result("post", "posted")
           /\ fnArg = NoArg
           /\ fnRet = NoArg
           /\ config = DefaultSettings
           /\ PitchIdle

NextPoll ==
    \/ CheckChallengeReplies
    \/ ProcessReply
    \/ EvalSetCompleted
    \/ EvalSetWinner
    \/ CheckAppend
    \/ CheckSetCompleted
    \/ CheckSetWinner
    \/ CheckSave
    \/ CheckFeedback
    \/ PollReturn

SpecPoll == InitPoll /\ [][NextPoll]_vars

\* ------------------------------------------------------------------ spec
Next ==
    \/ PostPersuadeChallenge
    \/ UserReplies
    \/ CheckChallengeReplies
    \/ ProcessReply
    \/ EvalSetCompleted
    \/ EvalSetWinner
    \/ CheckAppend
    \/ CheckSetCompleted
    \/ CheckSetWinner
    \/ CheckSave
    \/ CheckFeedback
    \/ PollReturn
    \/ RewardSuccessfulPersuasion

Spec == Init /\ [][Next]_vars

\* ------------------- the handlers invoked on their own, settings edited
\* settings with and without topics and a threshold, and two reward amounts
Configs ==
    {Settings(t, a, th) : t \in {{}, Topics}, a \in {RewardAmount, RewardAmount + 1},
                          th \in {NoThreshold, Threshold}}

\* the operator edits the settings between two invocations
Reconfigure ==
    /\ pc = "idle"
    /\ \E c \in Configs \ {config} : config' = c
    /\ result' = Result("env", "configure")
    /\ calls' = {}
    /\ llm' = NoLLM
    /\ UNCHANGED <<cur, pollVars, autoStop, snapshot, platform, clock, transfers,
                   ledger, evalCalls, pureVars, pitchVars>>

\* the operator invokes the four handlers in any order, the evaluator with
\* the fields of a reply, and no reply is found under the root casts
NextInvoke ==
    \/ PostPersuadeChallenge
    \/ CheckChallengeReplies
    \/ InvokeEvaluatePersuasionReply
    \/ RewardSuccessfulPersuasion
    \/ Reconfigure

\* the agent before its first action, with any settings and time for one
\* more challenge
InitInvoke ==
    /\ cur = NoChallenge
    /\ loc = NoChallenge
    /\ aliased = TRUE
    /\ autoStop \in BOOLEAN
    /\ pc = "idle"
    /\ batch = <<>>
    /\ idx = 0
    /\ item = NoReply
    /\ snapshot = NoChallenge
    /\ platform = [t \in Timestamps |-> <<>>]
    /\ clock = MaxChallenges - 1
    /\ transfers = <<>>
    /\ ledger = <<>>
    /\ evalCalls = [h \in ReplyHashes |-> 0]
    /\ calls = {}
    /\ llm = NoLLM
    /\ result = NoResult
    /\ config \in Configs
    /\ PitchIdle
    /\ fnArg = NoArg
    /\ fnRet = NoArg

SpecInvoke == InitInvoke /\ [][NextInvoke]_vars

\* ======================================================== pitch pipeline
\* longest answer of mentioned-casts and of get-latest-casts
MaxFeed == 2

MaxResponseChars == 300

EllipsisChars == 3

Cast(hash, username, text) ==
    [hash |-> hash, username |-> username, text |-> text]

\* casts the platform can answer with; the third has no 'hash'
Casts ==
    {Cast("0xa1", "erin", "my startup idea"),
     Cast("0xa2", "frank", "hello"),
     Cast(Absent, "gina", "my startup idea")}

CastHashes == {c.hash : c \in Casts} \ {Absent}

Feeds == UNION {[1..n -> Casts] : n \in 0..MaxFeed}

\* is_valid_pitch over the texts of Casts: 'startup' and 'idea' are
\* keywords, and no keyword is part of 'hello'
IsValidPitch(text) == text \in {"my startup idea"}

AllHashes(all) == {all[i].hash : i \in 1..Len(all)}

\* a cast is kept whatever came before it
AddCastAlways(all, cast) ==
    IF cast.hash # Absent THEN Append(all, cast) ELSE all

\* one iteration of the two loops of monitor_farcaster
AddCast(all, cast) ==
    IF cast.hash # Absent /\ cast.hash \notin AllHashes(all)
    THEN Append(all, cast)
    ELSE all

RECURSIVE AddCasts(_, _)
AddCasts(all, feed) ==
    IF feed = <<>> THEN all ELSE AddCasts(AddCast(all, Head(feed)), Tail(feed))

\* list(all_casts.values()): mentions first, then the latest casts
MonitorFarcaster(mentions, latest) == AddCasts(AddCasts(<<>>, mentions), latest)

\* texts the provider answers the evaluation prompt with; "" stands for an
\* answer without 'result'
EvaluationTexts == {"{}", "7", "I pass", ""}

\* json.loads: the parsed value, Absent on JSONDecodeError
JsonLoads(text) ==
    CASE text = "{}" -> "object"
      [] text = "7" -> "number"
      [] OTHER -> Absent

\* lengths of the texts the provider answers the response prompt with
ResponseLengths == {0, MaxResponseChars, MaxResponseChars + 1}

\* response_text[:297] + "..." for a text longer than 300 characters
TrimResponse(n) ==
    IF n > MaxResponseChars
    THEN (MaxResponseChars - EllipsisChars) + EllipsisChars
    ELSE n

ReplyOutcomes == {"posted", "failed"}

PitchCall(action, stage, cast) == [action |-> action, stage |-> stage, cast |-> cast]

\* the stage's result is never looked at
StageFailedNever(res) == FALSE

\* `not <stage>_result.get("success", False)`
StageFailed(res) == ~res.success

\* the result of process_pitch when a stage failed
FailedAt(res, stage) == [res EXCEPT !.success = FALSE, !.stage = stage]

\* process_pitch returns: to the caller, or to the loop of process_new_casts
ReturnPitch(res) ==
    /\ pitchResult' = [res EXCEPT !.returned = TRUE]
    /\ pitchPc' = IF castIdx = 0 THEN "done" ELSE "mark"

\* process_pitch is invoked on its own, with or without a cast to reply to
ProcessPitch ==
    /\ pitchPc = "idle"
    /\ \E cast_id \in CastHashes \cup {Absent} : pitchCastId' = cast_id
    /\ pitchPc' = "evaluate"
    /\ pitchResult' = NoPitchResult
    /\ UNCHANGED <<feeds, processedCasts, allCasts, castIdx, newProcessed,
                   processedCount, pitchTrace>>
    /\ UNCHANGED persuadeVars

\* step 1 of process_pitch: evaluate_pitch
EvaluatePitch ==
    /\ pitchPc = "evaluate"
    /\ \E provider \in BOOLEAN, text \in EvaluationTexts :
          LET evaluation == JsonLoads(text)
              res == [NoPitchResult EXCEPT
                          !.success = provider /\ evaluation # Absent,
                          !.evaluation = IF provider THEN evaluation ELSE Absent]
          IN /\ pitchTrace' =
                   IF provider
                   THEN Append(pitchTrace,
                               PitchCall("generate-text", "evaluation", pitchCastId))
                   ELSE pitchTrace
             /\ IF StageFailed(res)
                THEN ReturnPitch(FailedAt(res, "evaluation"))
                ELSE /\ pitchResult' = res
                     /\ pitchPc' = "respond"
    /\ UNCHANGED <<feeds, processedCasts, allCasts, castIdx, newProcessed,
                   processedCount, pitchCastId>>
    /\ UNCHANGED persuadeVars

\* step 2 of process_pitch: generate_response
GenerateResponse ==
    /\ pitchPc = "respond"
    /\ \E provider \in BOOLEAN, n \in ResponseLengths :
          LET res == [pitchResult EXCEPT
                          !.success = provider,
                          !.responded = provider,
                          !.character_count = IF provider THEN TrimResponse(n) ELSE 0]
          IN /\ pitchTrace' =
                   IF provider
                   THEN Append(pitchTrace,
                               PitchCall("generate-text", "response_generation",
                                         pitchCastId))
                   ELSE pitchTrace
             /\ IF StageFailed(res)
                THEN ReturnPitch(FailedAt(res, "response_generation"))
                ELSE /\ pitchResult' = res
                     /\ pitchPc' = "post"
    /\ UNCHANGED <<feeds, processedCasts, allCasts, castIdx, newProcessed,
                   processedCount, pitchCastId>>
    /\ UNCHANGED persuadeVars

\* step 3 of process_pitch: post_to_farcaster, and the final return
PostToFarcaster ==
    /\ pitchPc = "post"
    /\ \E outcome \in ReplyOutcomes :
          LET res == [pitchResult EXCEPT !.success = outcome = "posted"]
          IN /\ pitchTrace' =
                   Append(pitchTrace,
                          PitchCall(IF pitchCastId # Absent THEN "reply-to-cast"
                                                            ELSE "post-cast",
                                    "posting", pitchCastId))
             /\ IF StageFailed(res)
                THEN ReturnPitch(FailedAt(res, "posting"))
                ELSE ReturnPitch([res EXCEPT !.success = TRUE])
    /\ UNCHANGED <<feeds, processedCasts, allCasts, castIdx, newProcessed,
                   processedCount, pitchCastId>>
    /\ UNCHANGED persuadeVars

\* entry of new_processed
Processed(cast, is_pitch) ==
    [hash |-> cast.hash, author |-> cast.username, is_pitch |-> is_pitch]

\* process_new_casts up to its loop: the arguments and monitor_farcaster
ProcessNewCasts ==
    /\ pitchPc = "idle"
    /\ \E processed \in SUBSET CastHashes, mentions \in Feeds, latest \in Feeds :
          /\ processedCasts' = processed
          /\ feeds' = [mentions |-> mentions, latest |-> latest]
          /\ allCasts' = MonitorFarcaster(mentions, latest)
    /\ castIdx' = 1
    /\ newProcessed' = {}
    /\ processedCount' = 0
    /\ pitchPc' = "loop"
    /\ UNCHANGED <<pitchCastId, pitchTrace, pitchResult>>
    /\ UNCHANGED persuadeVars

\* `new_processed[cast_id] = {...}` and `processed_count += 1`
MarkCast(cast, is_pitch) ==
    /\ newProcessed' = {e \in newProcessed : e.hash # cast.hash}
                          \cup {Processed(cast, is_pitch)}
    /\ processedCount' = processedCount + 1
    /\ castIdx' = castIdx + 1
    /\ pitchPc' = "loop"

\* one cast of the loop, up to the call of process_pitch
NextCast ==
    /\ pitchPc = "loop"
    /\ castIdx <= Len(allCasts)
    /\ LET cast == allCasts[castIdx]
       IN IF cast.hash \in processedCasts
          THEN /\ castIdx' = castIdx + 1
               /\ UNCHANGED <<newProcessed, processedCount, pitchPc, pitchCastId,
                              pitchResult>>
          ELSE IF IsValidPitch(cast.text)
          THEN /\ pitchCastId' = cast.hash
               /\ pitchResult' = NoPitchResult
               /\ pitchPc' = "evaluate"
               /\ UNCHANGED <<castIdx, newProcessed, processedCount>>
          ELSE /\ MarkCast(cast, FALSE)
               /\ UNCHANGED <<pitchCastId, pitchResult>>
    /\ UNCHANGED <<feeds, processedCasts, allCasts, pitchTrace>>
    /\ UNCHANGED persuadeVars

\* the end of the iteration of a cast that was a pitch
MarkProcessed ==
    /\ pitchPc = "mark"
    /\ MarkCast(allCasts[castIdx], TRUE)
    /\ UNCHANGED <<feeds, processedCasts, allCasts, pitchCastId, pitchTrace,
                   pitchResult>>
    /\ UNCHANGED persuadeVars

\* process_new_casts returns processed_count and new_processed
ReturnNewProcessed ==
    /\ pitchPc = "loop"
    /\ castIdx > Len(allCasts)
    /\ pitchPc' = "done"
    /\ UNCHANGED <<feeds, processedCasts, allCasts, castIdx, newProcessed,
                   processedCount, pitchCastId, pitchTrace, pitchResult>>
    /\ UNCHANGED persuadeVars

NextPitch ==
    \/ ProcessPitch
    \/ EvaluatePitch
    \/ GenerateResponse
    \/ PostToFarcaster
    \/ ProcessNewCasts
    \/ NextCast
    \/ MarkProcessed
    \/ ReturnNewProcessed

InitPitch == Init

SpecPitch == InitPitch /\ [][NextPitch]_vars

\* ============================================================ properties
TransfersSent(t) ==
    Cardinality({i \in 1..Len(transfers) : transfers[i] = t})

Hashes(ch) == {ch.responses[i].reply_hash : i \in 1..Len(ch.responses)}

Passing(ch) == {i \in 1..Len(ch.responses) : ReplyPassed(ch.responses[i])}

FirstPassing(ch) == CHOOSE i \in Passing(ch) : \A j \in Passing(ch) : i <= j

SameChallenge == cur'.timestamp = cur.timestamp

\* C1: for one challenge, over any sequence of polls and reward invocations,
\* at most one token transfer is issued and at most one ledger entry is
\* appended (a reward that finds its response already rewarded does nothing).
C1_AtMostOneReward ==
    /\ \A t \in Timestamps : TransfersSent(t) <= 1
    /\ Len(ledger) <= Cardinality({t \in Timestamps : TransfersSent(t) > 0})

\* C2: in every reachable state the current challenge's responses hold no
\* two entries with the same reply_hash.
C2_NoDuplicateReplyHash ==
    \A i, j \in 1..Len(cur.responses) :
        i # j => cur.responses[i].reply_hash # cur.responses[j].reply_hash

\* C3: across any number of poll ticks the text-generation evaluator is
\* invoked at most once for each reply_hash.
C3_EvaluatedAtMostOnce == \A h \in ReplyHashes : evalCalls[h] <= 1

\* names under which the author of the reply with this hash was recorded
AuthorNames(ch, hash) ==
    UNION {{ch.responses[i].username, ch.responses[i].display_name} :
             i \in {j \in 1..Len(ch.responses) : ch.responses[j].reply_hash = hash}}
    \ {Absent}

\* C4: when a challenge is completed, its recorded winner is the author of
\* the first response in arrival order whose evaluation passed.
C4_ArrivalOrderWinner ==
    (pc = "idle" /\ HasChallenge /\ cur.completed) =>
        /\ Passing(cur) # {}
        /\ cur.winner \in AuthorNames(cur, cur.responses[FirstPassing(cur)].reply_hash)

\* C5: once completed is set on the current challenge, no further evaluator
\* call is made and no response for a further reply is appended to it.
C5_FrozenAfterCompletion ==
    [][(cur.completed /\ SameChallenge) =>
          /\ evalCalls' = evalCalls
          /\ Hashes(cur') \subseteq Hashes(cur)]_vars

\* C6: within one challenge the winner, once non-null, is never changed by a
\* later step.
C6_WinnerSetOnce ==
    [][(cur.winner # Absent /\ SameChallenge) => cur'.winner = cur.winner]_vars

\* C7: the poll that completes the challenge triggers the disbursement: when
\* a poll has returned with the challenge completed, a token transfer for
\* that challenge has been sent.
C7_CompletionTriggersReward ==
    (pc = "idle" /\ result.op = "check" /\ result.kind = "processed" /\ cur.completed) =>
        TransfersSent(cur.timestamp) > 0

\* C8: post-persuade-challenge fails while the current challenge exists and
\* is not completed, and leaves that challenge the current one, unchanged.
C8_CreateFailsWhileActive ==
    [][(pc = "idle" /\ HasChallenge /\ ~cur.completed /\ result'.op = "post") =>
          (cur' = cur /\ result'.kind = "error")]_vars

\* C9: a poll that starts with the current challenge completed is a no-op:
\* no fetch, no evaluator call, no feedback, no snapshot write, the challenge
\* unchanged, and the returned message names the existing winner.
C9_CompletedPollIsNoop ==
    [][(pc = "idle" /\ HasChallenge /\ cur.completed /\ result'.op = "check") =>
          /\ pc' = "idle"
          /\ calls' = {}
          /\ cur' = cur
          /\ snapshot' = snapshot
          /\ evalCalls' = evalCalls
          /\ transfers' = transfers /\ ledger' = ledger
          /\ result'.kind = "completed"
          /\ result'.winner = cur.winner]_vars

\* a poll has answered with the winner of a completed challenge
C9_Witness ==
    /\ result.op = "check" /\ result.kind = "completed"
    /\ result.winner # Absent /\ result.winner = cur.winner
    /\ Len(platform[cur.cast_hash]) > Len(batch)

\* C10: in every reachable state, the states between the two assignments and
\* the persisted snapshots included, winner != null implies completed.
C10_WinnerImpliesCompleted ==
    /\ cur.winner # Absent => cur.completed
    /\ loc.winner # Absent => loc.completed
    /\ snapshot.winner # Absent => snapshot.completed

\* the evaluator has made both assignments and written the snapshot, and the
\* poll has not yet made its own
C10_Witness ==
    /\ pc = "chk_append"
    /\ cur.winner # Absent /\ cur.completed
    /\ snapshot = cur

\* the challenge records the program holds
Records == {cur, loc, snapshot}

\* C11: a reward attempt whose token transfer fails is reported as an error
\* and changes nothing (no rewarded flag, no reward_tx, no ledger entry, no
\* snapshot write), so it can be retried; a response carries rewarded = true
\* only after a transfer for its challenge was sent.
C11_FailedTransferChangesNothing ==
    /\ [](\A ch \in Records : \A i \in 1..Len(ch.responses) :
            ch.responses[i].rewarded =>
                /\ TransfersSent(ch.timestamp) > 0
                /\ ch.responses[i].reward_tx # NoTx)
    /\ [][("transfer" \in calls' /\ transfers' = transfers) =>
            /\ result'.op = "reward" /\ result'.kind = "error"
            /\ cur' = cur /\ snapshot' = snapshot /\ ledger' = ledger]_vars

\* a transfer has failed for a passing response that is still unrewarded
C11_Witness ==
    /\ result.op = "reward" /\ result.kind = "error" /\ "transfer" \in calls
    /\ \E i \in Passing(cur) : ~cur.responses[i].rewarded /\ cur.responses[i].reward_tx = NoTx
    /\ ledger = <<>>

\* the provider returned text that holds no valid JSON object
NoJsonObject(a) == a.called /\ ~a.raised /\ ~(a.json /\ a.object)

\* C12: when the provider's text holds no valid JSON object, the evaluator
\* yields the evaluation score = 5, passed = false, appends the response with
\* it to the current challenge, and leaves the challenge open.
C12_UnparseableDefaults ==
    NoJsonObject(llm) =>
        /\ item.evaluation = EvalDict(DefaultScore, FALSE)
        /\ Len(cur.responses) > 0
        /\ cur.responses[Len(cur.responses)].reply_hash = item.reply_hash
        /\ cur.responses[Len(cur.responses)].evaluation = EvalDict(DefaultScore, FALSE)
        /\ pc = "chk_append"

\* C13: for every provider result that is a JSON object, an evaluation is
\* stored; when the object lacks passed, the stored passed equals
\* (score >= threshold), with score the provider's or, when absent too, the
\* default 5; when it carries passed, the stored passed is the provider's.
C13_ThresholdConsistency ==
    (fnRet.fn = "parse" /\ fnArg.resp.json /\ fnArg.resp.object) =>
        LET r == fnArg.resp
            ev == fnRet.value
            score == IF r.hasScore THEN r.score ELSE 5
        IN /\ ev.isDict
           /\ ev.score = score
           /\ ~r.hasPassed => (ev.passed <=> (score >= fnArg.threshold))
           /\ r.hasPassed => (ev.passed <=> r.passed)

\* an object without score and passed was evaluated against a threshold the
\* default score reaches
C13_Witness ==
    /\ fnRet.fn = "parse"
    /\ fnArg.resp.object /\ ~fnArg.resp.hasPassed /\ ~fnArg.resp.hasScore
    /\ fnArg.threshold = 5
    /\ fnRet.value.passed

\* an object whose passed contradicts its score kept the provider's passed
C13_WitnessOverride ==
    /\ fnRet.fn = "parse"
    /\ fnArg.resp.hasPassed /\ fnArg.resp.hasScore
    /\ fnArg.resp.score >= fnArg.threshold
    /\ ~fnRet.value.passed

\* a poll whose fetch succeeds and which starts processing the replies under
\* the current challenge's root cast
PollProcesses ==
    /\ CheckChallengeReplies
    /\ pc' = "loop"
    /\ batch' = platform[cur.cast_hash]

\* C14: a poll whose fetch of the replies fails marks nothing processed: it
\* makes no evaluator call, writes no snapshot, changes no challenge record
\* (responses, completed, winner) and ends; a later poll whose fetch succeeds
\* processes the replies under the root cast.
C14_FetchFailureMarksNothing ==
    /\ [][("get-cast" \in calls') =>
            /\ evalCalls' = evalCalls /\ llm' = NoLLM
            /\ snapshot' = snapshot
            /\ cur' \in {cur, snapshot}
            /\ transfers' = transfers /\ ledger' = ledger
            /\ pc' = "idle"]_vars
    /\ []((result.kind = "fetch-failed" /\ ~cur.completed
               /\ platform[cur.cast_hash] # <<>>) => ENABLED PollProcesses)

\* a fetch has failed while a reply under the root cast was unprocessed
C14_Witness ==
    /\ result.op = "check" /\ result.kind = "fetch-failed"
    /\ "get-cast" \in calls
    /\ ~cur.completed
    /\ \E i \in 1..Len(platform[cur.cast_hash]) :
           ReplyOf(platform[cur.cast_hash][i]).hash \notin Hashes(cur)

Available(x) == x \notin {Absent, ""}

\* C17: normalisation of a mapping payload follows the fallback order: the
\* reply text is the top-level text when that key is present and content.text
\* otherwise; the username is the first available of author.username,
\* author.displayName and author.fname, and user_<fid> when only the fid is.
C17_FallbackOrder ==
    fnRet.fn = "normalize" =>
        LET r == fnArg.reply
            a == r.author
            got == fnRet.value.fields
        IN /\ got.reply_text = IF r.text # Absent THEN r.text ELSE r.content_text
           /\ IF Available(a.username) THEN got.username = a.username
              ELSE IF Available(a.displayName) THEN got.username = a.displayName
              ELSE IF Available(a.fname) THEN got.username = a.fname
              ELSE IF a.fid # NoFid THEN got.username = "user_" \o ToString(a.fid)
              ELSE ~Available(got.username)

\* a payload from which no hash or no text can be recovered
Unrecoverable(reply) ==
    \/ ~Available(reply.hash)
    \/ ~Available(reply.text) /\ ~Available(reply.content_text)

\* a sequence without its immediate repetitions
RECURSIVE Squash(_)
Squash(seq) ==
    IF Len(seq) <= 1 THEN seq
    ELSE IF seq[1] = seq[2] THEN Squash(Tail(seq))
    ELSE <<seq[1]>> \o Squash(Tail(seq))

\* C16: a reply from which no hash or no text can be recovered is skipped
\* with no evaluator call and no response appended, and the loop goes on to
\* the next reply; when the poll returns, the other replies of the batch have
\* been recorded in batch order.
C16_SkipDoesNotAbort ==
    /\ [][(pc = "loop" /\ idx <= Len(batch) /\ Unrecoverable(ReplyOf(batch[idx]))) =>
            /\ evalCalls' = evalCalls /\ calls' = {} /\ llm' = NoLLM
            /\ cur' = cur /\ loc' = loc /\ snapshot' = snapshot
            /\ pc' = "loop" /\ batch' = batch /\ idx' = idx + 1]_vars
    /\ []((pc = "idle" /\ result.op = "check" /\ result.kind = "processed") =>
            LET fetched == platform[cur.cast_hash]
                Complete(id) == ~Incomplete(ReplyOf(id))
                others == SelectSeq(fetched, Complete)
            IN Squash([i \in 1..Len(cur.responses) |-> cur.responses[i].reply_hash])
                 = [i \in 1..Len(others) |-> ReplyOf(others[i]).hash])

\* the reply after a skipped one is being recorded
C16_Witness ==
    /\ pc = "chk_append"
    /\ idx > 1
    /\ Unrecoverable(ReplyOf(batch[idx - 1]))
    /\ item.reply_hash = ReplyOf(batch[idx]).hash
    /\ item.evaluation.isDict

\* C18: a reply is skipped as incomplete only when its hash or its text
\* cannot be recovered: every unprocessed reply that carries a hash and a
\* text, with or without an author identity, is passed to the evaluator.
C18_IncompleteOnlyWithoutHashOrText ==
    [][(pc = "loop" /\ idx <= Len(batch)
          /\ ~Unrecoverable(ReplyOf(batch[idx]))
          /\ ReplyOf(batch[idx]).hash \notin Hashes(Local)) =>
          /\ "generate-text" \in calls'
          /\ evalCalls'[ReplyOf(batch[idx]).hash] = evalCalls[ReplyOf(batch[idx]).hash] + 1]_vars

C20_SnapshotFollowsState ==
    (pc \in {"idle", "loop"} /\ HasChallenge) => snapshot = cur

\* display names the poll captured for the reply with this hash
CapturedDisplayNames(ch, hash) ==
    {ch.responses[i].display_name :
        i \in {j \in 1..Len(ch.responses) :
                  /\ ch.responses[j].reply_hash = hash
                  /\ Available(ch.responses[j].display_name)}}

\* C21: after a sent transfer one congratulation is posted, as a reply to the
\* winning reply when its hash is known; it mentions the display name
\* captured from that reply when there is one, the username otherwise.
C21_CongratulationNamesDisplayIdentity ==
    (result.op = "reward" /\ result.kind = "sent") =>
        /\ Available(result.target)
        /\ "reply-to-reply" \in calls /\ "reply-to-root" \notin calls
        /\ IF CapturedDisplayNames(cur, result.target) # {}
           THEN result.mention \in CapturedDisplayNames(cur, result.target)
           ELSE result.mention = result.winner

\* passing responses of a challenge written by one username
PassingBy(ch, username) ==
    {i \in Passing(ch) : ch.responses[i].username = username}

\* C22: a reward asked for a username rewards the first passing response of
\* that username; when there is none it answers 'No winning response found'
\* and makes no transfer, no ledger entry and no change to the challenge.
C22_UsernameDirectedReward ==
    [][(pc = "idle" /\ HasChallenge /\ result'.op = "reward"
            /\ ~Falsy(result'.requested)) =>
          LET mine == PassingBy(cur, result'.requested)
              first == CHOOSE i \in mine : \A j \in mine : i <= j
          IN IF mine = {}
             THEN /\ result'.kind = "no-winner"
                  /\ transfers' = transfers /\ ledger' = ledger
                  /\ cur' = cur /\ snapshot' = snapshot
             ELSE result'.kind = "sent" =>
                  /\ result'.winner = result'.requested
                  /\ cur'.responses[first].rewarded
                  /\ \A i \in 1..Len(cur.responses) :
                        i # first => cur'.responses[i] = cur.responses[i]]_vars

\* responses of a challenge that carry rewarded = true
Rewarded(ch) == {i \in 1..Len(ch.responses) : ch.responses[i].rewarded}

\* C23: at most one response of the current challenge is rewarded, and it is
\* the winning response: it passed, the challenge is completed and winner
\* names its author.
C23_OnlyWinnerRewarded ==
    /\ Cardinality(Rewarded(cur)) <= 1
    /\ \A i \in Rewarded(cur) :
          /\ ReplyPassed(cur.responses[i])
          /\ cur.completed
          /\ cur.winner \in {cur.responses[i].username, ExtractDisplayName(
                                CHOOSE r \in {ReplyOf(id) : id \in ReplyIds} :
                                    ExtractHash(r) = cur.responses[i].reply_hash)} \ {Absent}

\* what a handler that returned early must have left alone
NoSideEffect ==
    /\ calls' = {}
    /\ cur' = cur /\ snapshot' = snapshot
    /\ transfers' = transfers /\ ledger' = ledger
    /\ evalCalls' = evalCalls /\ clock' = clock
    /\ pc' = "idle"

\* C24: configuration errors are answered with an error string and have no
\* side effect: a post without topics creates no challenge and posts
\* nothing; a poll, an evaluation and a reward without a current challenge
\* make no external call and change no state.
C24_ConfigurationErrorsHaveNoEffect ==
    [][/\ (result'.op = "post" /\ config.topics = {}) =>
             (result'.kind = "no-topics" /\ NoSideEffect)
       /\ (result'.op \in {"check", "evaluate", "reward"} /\ cur = NoChallenge) =>
             (result'.kind \in {"no-challenge", "missing-parameters"} /\ NoSideEffect)]_vars

\* a post was refused for want of topics when a challenge could have been
\* created
C24_Witness ==
    /\ result.op = "post" /\ result.kind = "no-topics"
    /\ cur = NoChallenge /\ clock < MaxChallenges

\* a reward was refused for want of a challenge
C24_WitnessReward ==
    /\ result.op = "reward" /\ result.kind = "no-challenge"
    /\ cur = NoChallenge /\ transfers = <<>>

\* C25: with no persuasion threshold in the settings, an invocation of the
\* evaluator answers with an error string: it makes no text-generation call
\* and appends no response (the kinds "passed" and "failed" are the answers
\* of an invocation that appended one).
C25_MissingThresholdIsAnError ==
    (result.op = "evaluate" /\ config.persuasion_threshold = NoThreshold) =>
        /\ result.kind \notin {"passed", "failed"}
        /\ "generate-text" \notin calls
        /\ ~llm.called

\* C26: a completed current challenge stays the current challenge, and stays
\* completed, through every step of a poll, an evaluation or a reward; only
\* post-persuade-challenge replaces it.
C26_CompletedIsTerminal ==
    [][(HasChallenge /\ cur.completed /\ result'.op # "post") =>
          /\ cur'.timestamp = cur.timestamp
          /\ cur'.completed]_vars

\* a reward was paid on a completed challenge after a poll that went on to
\* evaluate a second reply
C26_Witness ==
    /\ HasChallenge /\ cur.completed
    /\ result.op = "reward" /\ result.kind = "sent"
    /\ Cardinality(Hashes(cur)) > 1

\* C27: the amount handed to the transfer call, and the amount of the ledger
\* entry a paid reward appends, is the reward_amount stored on the challenge
\* when it was created, whatever the settings say at the time of the reward.
C27_AmountFixedAtCreation ==
    (result.op = "reward" /\ "transfer" \in calls) =>
        /\ result.amount = cur.reward_amount
        /\ result.kind = "sent" => ledger[Len(ledger)].reward_amount = cur.reward_amount

\* a poll that reloaded the challenge from its snapshot is in its loop and
\* has recorded no reply yet
RecoveredUntouched == pc = "loop" /\ ~aliased /\ loc.responses = <<>>

\* C28: a challenge reloaded from the snapshot by a poll is frozen if it is
\* completed: that poll evaluates no reply, appends no response and leaves
\* the recovered winner alone.
C28_RecoveredCompletedIsFrozen ==
    [][(RecoveredUntouched /\ cur.completed) =>
          /\ evalCalls' = evalCalls /\ "generate-text" \notin calls'
          /\ cur'.responses = cur.responses
          /\ cur'.winner = cur.winner]_vars

\* the responses of a challenge, as a set
ResponseSet(ch) == {ch.responses[i] : i \in 1..Len(ch.responses)}

\* C29: the poll that reloaded the challenge from its snapshot works on the
\* recovered challenge: a reply whose hash the recovered challenge already
\* holds is not evaluated again, and when the poll returns every response it
\* recorded is in the current challenge and in the snapshot.
C29_RecoveredPollUsesRecovered ==
    [][/\ (pc = "loop" /\ ~aliased /\ idx <= Len(batch)
             /\ ExtractHash(ReplyOf(batch[idx])) \in Hashes(cur)) =>
                (evalCalls' = evalCalls /\ "generate-text" \notin calls')
       /\ (pc = "loop" /\ ~aliased /\ pc' = "idle") =>
                /\ ResponseSet(loc) \subseteq ResponseSet(cur')
                /\ ResponseSet(loc) \subseteq ResponseSet(snapshot')]_vars

\* C30: the evaluation that is stored in a response has an integer score in
\* the range 1..10, whatever score the provider's JSON carries.
C30_StoredScoreInRange ==
    (fnRet # NoArg /\ fnRet.fn = "parse" /\ fnRet.value.isDict) =>
        fnRet.value.score \in 1..MaxScore

\* C31: every response of the current challenge carries a structured
\* evaluation (a record with score and passed), also when the
\* text-generation call raised or the evaluator answered an error string.
C31_EvaluationsAreStructured ==
    \A i \in 1..Len(cur.responses) : cur.responses[i].evaluation.isDict

\* C32: when the current challenge holds a response that passed, a reward
\* asked for no username selects the first such response and reaches the
\* transfer call, whatever was recorded for the responses before it.
C32_AutomaticRewardReachesTransfer ==
    (result.op = "reward" /\ Falsy(result.requested) /\ Passing(cur) # {}) =>
        /\ "transfer" \in calls
        /\ result.kind = "sent" =>
              /\ cur.responses[FirstPassing(cur)].rewarded
              /\ result.target = cur.responses[FirstPassing(cur)].reply_hash

\* C33: the ledger entry a reward writes carries the address that was handed
\* to the transfer call of that reward and the evaluation score of the
\* rewarded response, also when the identity lookup answers differently at
\* reward time than it did when the reply was evaluated.
C33_LedgerMatchesTransfer ==
    (result.op = "reward" /\ result.kind = "sent") =>
        LET entry == ledger[Len(ledger)]
        IN /\ entry.address = result.address
           /\ \E i \in Rewarded(cur) :
                 /\ cur.responses[i].reward_tx = entry.reward_tx
                 /\ cur.responses[i].evaluation.score = entry.score

\* C34: a post-persuade-challenge whose post-cast call raises answers with an
\* error string and leaves the current challenge as it was before the call.
C34_FailedPostKeepsChallenge ==
    [][(result'.op = "post" /\ calls' = {"post-cast"}) =>
          /\ result'.kind = "error"
          /\ cur' = cur]_vars

\* C35: with auto_stop_on_winner false a passing reply does not complete the
\* challenge: completed stays false and winner stays unset, so later polls
\* keep evaluating new replies.
C35_NoAutoStopKeepsOpen ==
    (~autoStop /\ HasChallenge) => (~cur.completed /\ cur.winner = Absent)

\* C36: when the poll attempts the feedback for a reply, the reply is already
\* recorded in the current challenge and in its snapshot; the feedback goes
\* to the reply first and to the root cast of the current challenge when,
\* and only when, that fails; whatever the outcome, the challenge and the
\* snapshot are left alone and the loop goes on with the next reply.
C36_FeedbackAfterSave ==
    [][(pc = "feedback" /\ item.evaluation.isDict) =>
          /\ item.reply_hash \in Hashes(cur) /\ snapshot = cur
          /\ "reply-to-reply" \in calls'
          /\ "reply-to-root" \in calls' <=>
                ("reply-failed" \in calls' /\ cur.cast_hash # NoCast)
          /\ cur' = cur /\ snapshot' = snapshot
          /\ pc' = "loop" /\ idx' = idx + 1 /\ batch' = batch]_vars


PitchStages == {"evaluation", "response_generation", "posting"}

NewHashes == {e.hash : e \in newProcessed}

FeedHashes ==
    ({feeds.mentions[i].hash : i \in 1..Len(feeds.mentions)}
        \cup {feeds.latest[i].hash : i \in 1..Len(feeds.latest)}) \ {Absent}

PitchCallsFor(h, stage) ==
    {i \in 1..Len(pitchTrace) : pitchTrace[i].cast = h /\ pitchTrace[i].stage = stage}

PitchTraced == {pitchTrace[i].cast : i \in 1..Len(pitchTrace)}

\* C37: during and after a call of process_new_casts, no connection action
\* is performed for a cast whose hash is in processed_casts; every stage is
\* run at most once per hash and processed_count counts distinct hashes,
\* also for a cast that is both a mention and a latest cast; new_processed
\* is disjoint from processed_casts, holds every cast a stage was run for
\* once its iteration is over, and at the return it is exactly the set of
\* fetched hashes that were not in processed_casts, whatever process_pitch
\* returned for them.
C37_NewProcessedIsHandled ==
    castIdx > 0 =>
        /\ PitchTraced \cap processedCasts = {}
        /\ \A h \in CastHashes, st \in PitchStages :
               Cardinality(PitchCallsFor(h, st)) <= 1
        /\ processedCount = Cardinality(NewHashes)
        /\ Cardinality(newProcessed) = Cardinality(NewHashes)
        /\ NewHashes \cap processedCasts = {}
        /\ PitchTraced \subseteq
               NewHashes \cup (IF pitchPc = "loop" \/ pitchPc = "done"
                               THEN {} ELSE {pitchCastId})
        /\ pitchPc = "done" => NewHashes = FeedHashes \ processedCasts

\* a call has returned after a pitch that was both a mention and a latest
\* cast failed, and after it skipped a processed cast
C37_Witness ==
    /\ castIdx > 0
    /\ pitchPc = "done"
    /\ \E i \in 1..Len(feeds.mentions), j \in 1..Len(feeds.latest) :
          /\ feeds.mentions[i].hash = feeds.latest[j].hash
          /\ feeds.mentions[i].hash = pitchCastId
    /\ pitchCastId \in NewHashes
    /\ pitchResult.returned
    /\ ~pitchResult.success
    /\ FeedHashes \cap processedCasts # {}

PitchStarted == pitchPc \in {"evaluate", "respond", "post"} \/ pitchResult.returned

StagesRun ==
    LET OfPitch(call) == call.cast = pitchCastId
        own == SelectSeq(pitchTrace, OfPitch)
    IN [i \in 1..Len(own) |-> own[i].stage]

StagePrefixes ==
    {<<>>, <<"evaluation">>, <<"evaluation", "response_generation">>,
     <<"evaluation", "response_generation", "posting">>}

\* C38: the connection actions of one process_pitch are made in the order
\* evaluation, response generation, posting; the posting action is made
\* only after the evaluation parsed as JSON and generate_response returned
\* a response; a failed result names "evaluation" when nothing was parsed
\* and no later stage ran, "response_generation" when only the evaluation
\* ran, "posting" when all three ran; a successful one ran all three.
C38_StagesInOrder ==
    PitchStarted =>
        /\ StagesRun \in StagePrefixes
        /\ Len(StagesRun) = 3 =>
               pitchResult.evaluation # Absent /\ pitchResult.responded
        /\ (pitchResult.returned /\ ~pitchResult.success) =>
               /\ pitchResult.stage \in PitchStages
               /\ pitchResult.stage = "evaluation" =>
                      Len(StagesRun) <= 1 /\ pitchResult.evaluation = Absent
               /\ pitchResult.stage = "response_generation" =>
                      /\ StagesRun = <<"evaluation">>
                      /\ pitchResult.evaluation # Absent
                      /\ ~pitchResult.responded
               /\ pitchResult.stage = "posting" => Len(StagesRun) = 3
        /\ (pitchResult.returned /\ pitchResult.success) =>
               Len(StagesRun) = 3 /\ pitchResult.stage = Absent

\* a process_pitch has returned a failure of the posting stage
C38_Witness ==
    /\ pitchResult.returned
    /\ ~pitchResult.success
    /\ pitchResult.stage = "posting"
    /\ StagesRun = <<"evaluation", "response_generation", "posting">>

\* a process_pitch has stopped at an evaluation that was not JSON
C38_WitnessEvaluation ==
    /\ pitchResult.returned
    /\ pitchResult.stage = "evaluation"
    /\ StagesRun = <<"evaluation">>

====
